---- MODULE Spec2Model ----
(***************************************************************************)
(* A model of the SEC EDGAR ingestion pipeline:                            *)
(*   src/src/ingest/fetch_sec.py  (ticker resolver, fact normalizer,       *)
(*                                 submission flattener, orchestrator)     *)
(*   src/src/load/load_raw.py     (bulk loader)                            *)
(* JSON values are records [kind, val]; a dict is an ordered sequence of   *)
(* <<key, value>> pairs (Python dicts iterate in insertion order).  The    *)
(* strings the code inspects character by character (tickers, namespaces,  *)
(* concept names, identifiers) are sequences of one-character strings.     *)
(***************************************************************************)
EXTENDS Integers, Sequences, FiniteSets, TLC

VARIABLES
    \* normalize_companyfacts called on its own
    doc, npc, rows, concepts, calls,
    \* what a run of fetch_sec.main finds: its configuration and the documents
    \* the SEC endpoints serve
    BUCKET, directory, subsOf, factsOf,
    \* the process of fetch_sec.py: the date it started on and how many
    \* processes there have been
    RAW_PREFIX_DATE, runs,
    \* fetch_sec.main: its position, the exception that ended it, its locals,
    \* the requests it issued, the files it wrote and the objects it uploaded
    pc, error, t2c, chosen, idx, subs, cfacts, all_cf, all_sub,
    requests, local, uploaded,
    \* the bucket: object name -> the rows of the object
    gcs,
    \* load_raw.main: the two raw tables, its position, how many processes
    raw_companyfacts, raw_submissions, lpc, loads

normVars == <<doc, npc, rows, concepts, calls>>
worldVars == <<BUCKET, directory, subsOf, factsOf>>
procVars == <<RAW_PREFIX_DATE, runs>>
runVars == <<pc, error, t2c, chosen, idx, subs, cfacts, all_cf, all_sub,
             requests, local, uploaded>>
loaderVars == <<raw_companyfacts, raw_submissions, lpc, loads>>
vars == <<normVars, worldVars, procVars, runVars, gcs, loaderVars>>

---------------------------------------------------------------------------
\* Bounds of the model

MaxFacts == 3
MaxObs == 2
MaxCalls == 2
MaxFilings == 2
MaxEntries == 2
MaxLoads == 2
MaxRuns == 2

---------------------------------------------------------------------------
\* Character strings

UC == <<"A","B","C","D","E","F","G","H","I","J","K","L","M","N","O","P","Q","R","S","T","U","V","W","X","Y","Z">>
LC == <<"a","b","c","d","e","f","g","h","i","j","k","l","m","n","o","p","q","r","s","t","u","v","w","x","y","z">>
DG == <<"0","1","2","3","4","5","6","7","8","9">>

Range(s) == {s[i] : i \in DOMAIN s}

\* the letters' lower-case and upper-case forms
LowerOf == [c \in Range(UC) |-> LC[CHOOSE i \in DOMAIN UC : UC[i] = c]]

UpperOf == [c \in Range(LC) |-> UC[CHOOSE i \in DOMAIN LC : LC[i] = c]]

\* str.lower(), one character
LowerChar(c) == IF c \in DOMAIN LowerOf THEN LowerOf[c] ELSE c

\* str.upper(), one character
UpperChar(c) == IF c \in DOMAIN UpperOf THEN UpperOf[c] ELSE c

lower(s) == [i \in DOMAIN s |-> LowerChar(s[i])]

upper(s) == [i \in DOMAIN s |-> UpperChar(s[i])]

\* Python's `term in c` on strings: term occurs as a contiguous substring
contains(c, term) ==
    \E k \in 0..(Len(c) - Len(term)) :
        \A j \in 1..Len(term) : c[k + j] = term[j]

\* seq[:n]
Take(s, n) == SubSeq(s, 1, IF Len(s) < n THEN Len(s) ELSE n)

\* `x in list`
InSeq(x, s) == \E i \in DOMAIN s : s[i] = x

---------------------------------------------------------------------------
\* JSON values

None == [kind |-> "none", val |-> <<>>]
MkDict(items) == [kind |-> "dict", val |-> items]
MkList(items) == [kind |-> "list", val |-> items]
MkStr(s) == [kind |-> "str", val |-> s]
MkInt(n) == [kind |-> "int", val |-> n]

\* isinstance(v, dict)
IsDict(v) == v.kind = "dict"

\* bool(v)
Truthy(v) ==
    CASE v.kind = "none" -> FALSE
      [] v.kind = "dict" -> v.val # <<>>
      [] v.kind = "list" -> v.val # <<>>
      [] v.kind = "str" -> v.val # ""
      [] v.kind = "int" -> v.val # 0

\* variant of `a or b` that prefers its second operand
Or_SecondFirst(a, b) == IF Truthy(b) THEN b ELSE a

\* `a or b`
Or(a, b) == IF Truthy(a) THEN a ELSE b

HasKey(d, key) == \E i \in DOMAIN d.val : d.val[i][1] = key

\* dict.get(key, default)
GetD(d, key, default) ==
    IF HasKey(d, key)
    THEN d.val[CHOOSE i \in DOMAIN d.val : d.val[i][1] = key][2]
    ELSE default

\* dict.get(key)
Get(d, key) == GetD(d, key, None)

\* `for x in v` is a TypeError unless v is iterable
Iterable(v) == v.kind \in {"list", "dict", "str"}

\* the values `for x in v` yields: a list's items, a dict's keys;
\* the strings used as unit values here are empty or one marker character
Iter(v) ==
    CASE v.kind = "list" -> v.val
      [] v.kind = "dict" -> [i \in DOMAIN v.val |-> MkStr(v.val[i][1])]
      [] v.kind = "str" -> IF v.val = "" THEN <<>> ELSE <<MkStr(v.val)>>

---------------------------------------------------------------------------
\* normalize_companyfacts (fetch_sec.py 26-74)

NS_USGAAP == <<"u","s","-","g","a","a","p">>
F_Revenues == <<"R","e","v","e","n","u","e","s">>
F_SalesRevenueNet == <<"S","a","l","e","s","R","e","v","e","n","u","e","N","e","t">>
F_CostOfRevenue == <<"C","o","s","t","O","f","R","e","v","e","n","u","e">>
F_GrossProfit == <<"G","r","o","s","s","P","r","o","f","i","t">>
F_NetIncomeLoss == <<"N","e","t","I","n","c","o","m","e","L","o","s","s">>
F_EarningsPerShareDiluted == <<"E","a","r","n","i","n","g","s","P","e","r","S","h","a","r","e","D","i","l","u","t","e","d">>
T_revenue == <<"r","e","v","e","n","u","e">>
T_sales == <<"s","a","l","e","s">>
T_income == <<"i","n","c","o","m","e">>
T_earnings == <<"e","a","r","n","i","n","g","s">>

\* f"{namespace}:{fact}"
ConceptName(namespace, fact) == namespace \o <<":">> \o fact

\* the initial value of the local `concepts`: the preferred list
concepts_preferred ==
    << ConceptName(NS_USGAAP, F_Revenues),
       ConceptName(NS_USGAAP, F_SalesRevenueNet),
       ConceptName(NS_USGAAP, F_CostOfRevenue),
       ConceptName(NS_USGAAP, F_GrossProfit),
       ConceptName(NS_USGAAP, F_NetIncomeLoss),
       ConceptName(NS_USGAAP, F_EarningsPerShareDiluted) >>

\* how many matches of each vocabulary the fallback keeps
FallbackPerVocabulary == 2
\* how many available concepts the last resort keeps
FallbackAny == 5

\* all_facts = facts.get("facts", {})
AllFacts(facts) == GetD(facts, "facts", MkDict(<<>>))

\* the concepts of one namespace, in its iteration order
NamespaceConcepts(namespace, namespace_facts) ==
    [j \in DOMAIN namespace_facts.val |->
        ConceptName(namespace, namespace_facts.val[j][1])]

\* available_concepts: the non-mapping namespaces contribute nothing
RECURSIVE AvailableFrom(_)
AvailableFrom(items) ==
    IF items = <<>> THEN <<>>
    ELSE LET namespace == Head(items)[1]
             namespace_facts == Head(items)[2]
         IN  (IF IsDict(namespace_facts)
              THEN NamespaceConcepts(namespace, namespace_facts)
              ELSE <<>>) \o AvailableFrom(Tail(items))

available_concepts(all_facts) == AvailableFrom(all_facts.val)

\* len([c for c in concepts if c in available_concepts])
original_concept_count(available) ==
    Cardinality({i \in DOMAIN concepts_preferred :
                    InSeq(concepts_preferred[i], available)})

IsRevenue(c) == contains(lower(c), T_revenue) \/ contains(lower(c), T_sales)

IsIncome(c) == contains(lower(c), T_income) \/ contains(lower(c), T_earnings)

revenue_concepts(available) == SelectSeq(available, IsRevenue)

income_concepts(available) == SelectSeq(available, IsIncome)

\* variant of the fallback branch without the [:2] cut of the revenue matches
FallbackConcepts_NoCut(available) ==
    LET picked == revenue_concepts(available)
                  \o Take(income_concepts(available), FallbackPerVocabulary)
    IN  IF picked = <<>> THEN Take(available, FallbackAny) ELSE picked

\* the fallback branch (lines 46-50)
FallbackConcepts(available) ==
    LET picked == Take(revenue_concepts(available), FallbackPerVocabulary)
                  \o Take(income_concepts(available), FallbackPerVocabulary)
    IN  IF picked = <<>> THEN Take(available, FallbackAny) ELSE picked

\* variant that keeps only the preferred concepts that are available
EffectiveConcepts_OnlyAvailable(available) ==
    IF original_concept_count(available) = 0
    THEN FallbackConcepts(available)
    ELSE SelectSeq(concepts_preferred, LAMBDA c : InSeq(c, available))

\* the value of `concepts` after lines 42-53
EffectiveConcepts(available) ==
    IF original_concept_count(available) = 0
    THEN FallbackConcepts(available)
    ELSE concepts_preferred

\* the dict appended at lines 68-73
MkRow(cik, ticker, concept, unit, end, ob) ==
    [cik |-> cik, ticker |-> ticker, concept |-> concept, unit |-> unit,
     period_end_date |-> end, val |-> Get(ob, "val"),
     accn |-> Get(ob, "accn"), fy |-> Get(ob, "fy"), fp |-> Get(ob, "fp"),
     form |-> Get(ob, "form"), filed |-> Get(ob, "filed")]

Ok(rs) == [raised |-> FALSE, rows |-> rs]
Raise(rs) == [raised |-> TRUE, rows |-> rs]

\* for ob in arr (lines 64-73); ob.get on a non-mapping raises
RECURSIVE WalkObs(_, _, _, _, _, _)
WalkObs(cik, ticker, concept, unit, obs, acc) ==
    IF obs = <<>> THEN Ok(acc)
    ELSE LET ob == Head(obs) IN
         IF ~IsDict(ob) THEN Raise(acc)
         ELSE LET end == Or(Get(ob, "end"), Get(ob, "fy")) IN
              WalkObs(cik, ticker, concept, unit, Tail(obs),
                      IF ~Truthy(end) THEN acc
                      ELSE Append(acc, MkRow(cik, ticker, concept, unit, end, ob)))

\* for unit, arr in body.get("units", {}).items() (line 63)
RECURSIVE WalkUnits(_, _, _, _, _)
WalkUnits(cik, ticker, concept, units, acc) ==
    IF units = <<>> THEN Ok(acc)
    ELSE LET unit == Head(units)[1]
             arr == Head(units)[2]
         IN  IF ~Iterable(arr) THEN Raise(acc)
             ELSE LET r == WalkObs(cik, ticker, concept, unit, Iter(arr), acc)
                  IN  IF r.raised THEN r
                      ELSE WalkUnits(cik, ticker, concept, Tail(units), r.rows)

\* one concept body (lines 60-63): body.get and .items() raise on non-mappings
WalkBody(cik, ticker, concept, body, acc) ==
    IF ~IsDict(body) THEN Raise(acc)
    ELSE LET units == GetD(body, "units", MkDict(<<>>)) IN
         IF ~IsDict(units) THEN Raise(acc)
         ELSE WalkUnits(cik, ticker, concept, units.val, acc)

\* for fact_name, body in namespace_facts.items() (lines 59-62)
RECURSIVE WalkFacts(_, _, _, _, _, _)
WalkFacts(cik, ticker, namespace, items, cs, acc) ==
    IF items = <<>> THEN Ok(acc)
    ELSE LET concept == ConceptName(namespace, Head(items)[1])
             r == IF ~InSeq(concept, cs) THEN Ok(acc)
                  ELSE WalkBody(cik, ticker, concept, Head(items)[2], acc)
         IN  IF r.raised THEN r
             ELSE WalkFacts(cik, ticker, namespace, Tail(items), cs, r.rows)

\* for namespace, namespace_facts in all_facts.items() (lines 56-58)
RECURSIVE WalkNamespaces(_, _, _, _, _)
WalkNamespaces(cik, ticker, items, cs, acc) ==
    IF items = <<>> THEN Ok(acc)
    ELSE LET r == IF ~IsDict(Head(items)[2]) THEN Ok(acc)
                  ELSE WalkFacts(cik, ticker, Head(items)[1],
                                 Head(items)[2].val, cs, acc)
         IN  IF r.raised THEN r
             ELSE WalkNamespaces(cik, ticker, Tail(items), cs, r.rows)

\* variant without the early return of lines 31-33
normalize_companyfacts_NoEarlyReturn(cik, ticker, facts) ==
    LET all_facts == AllFacts(facts) IN
    IF ~IsDict(all_facts)
    THEN [raised |-> TRUE, rows |-> <<>>, concepts |-> concepts_preferred]
    ELSE LET cs == EffectiveConcepts(available_concepts(all_facts))
             r == WalkNamespaces(cik, ticker, all_facts.val, cs, <<>>)
         IN  [raised |-> r.raised, rows |-> r.rows, concepts |-> cs]

\* The whole function: [raised, rows, concepts].  `concepts` is the local's
\* value when the function ends (the preferred list on the early return).
\* A truthy all_facts that is no mapping makes .items() raise at line 38.
normalize_companyfacts(cik, ticker, facts) ==
    LET all_facts == AllFacts(facts) IN
    IF ~Truthy(all_facts)
    THEN [raised |-> FALSE, rows |-> <<>>, concepts |-> concepts_preferred]
    ELSE IF ~IsDict(all_facts)
    THEN [raised |-> TRUE, rows |-> <<>>, concepts |-> concepts_preferred]
    ELSE LET cs == EffectiveConcepts(available_concepts(all_facts))
             r == WalkNamespaces(cik, ticker, all_facts.val, cs, <<>>)
         IN  [raised |-> r.raised, rows |-> r.rows, concepts |-> cs]

---------------------------------------------------------------------------
\* Fact documents the normalizer is called with

NS_DEI == <<"d","e","i">>
F_RetailSales == <<"R","e","t","a","i","l","S","a","l","e","s">>
F_OtherIncome == <<"O","t","h","e","r","I","n","c","o","m","e">>
F_Assets == <<"A","s","s","e","t","s">>
F_Cash == <<"C","a","s","h">>
F_Goodwill == <<"G","o","o","d","w","i","l","l">>
AAPL == <<"A","A","P","L">>
MSFT == <<"M","S","F","T">>
CIK_AAPL == <<"0","0","0","0","3","2","0","1","9","3">>

NsPool == {NS_USGAAP, NS_DEI}

FactPool == <<F_Revenues, F_Assets, F_RetailSales, F_Cash, F_NetIncomeLoss,
              F_Goodwill, F_OtherIncome>>

Reverse(s) == [i \in DOMAIN s |-> s[Len(s) + 1 - i]]

\* the members of a set of positions, ascending
Ascending(S) ==
    CHOOSE f \in [1..Cardinality(S) -> S] :
        \A i, j \in 1..Cardinality(S) : i < j => f[i] < f[j]

\* the observation of tests/test_ingestion.py
ObTest ==
    MkDict(<< <<"end", MkStr("2023-12-31")>>, <<"val", MkInt(1000000)>>,
              <<"accn", MkStr("123456")>>, <<"fy", MkInt(2023)>>,
              <<"fp", MkStr("FY")>> >>)

ObPool ==
    { ObTest,
      MkDict(<< <<"fy", MkInt(2022)>>, <<"val", MkInt(5)>> >>),
      MkDict(<< <<"end", MkStr("")>>, <<"fy", MkInt(2021)>>,
                <<"form", MkStr("10-K")>> >>),
      MkDict(<< <<"val", MkInt(7)>>, <<"filed", MkStr("2024-02-01")>> >>),
      MkDict(<< <<"end", None>>, <<"fy", MkInt(0)>>, <<"val", MkInt(9)>> >>) }

SimpleBody == MkDict(<< <<"units", MkDict(<< <<"USD", MkList(<<ObTest>>)>> >>)>> >>)

\* lists of at most n observations
Arrs(n) == {MkList(obs) : obs \in UNION {[1..k -> ObPool] : k \in 0..n}}

RichBodies ==
    {MkDict(<<>>)}
    \cup {MkDict(<< <<"units", MkDict(<<>>)>> >>)}
    \cup {MkDict(<< <<"units", MkDict(<< <<"USD", a>> >>)>> >>) : a \in Arrs(MaxObs)}
    \cup {MkDict(<< <<"units", MkDict(<< <<"USD", a>>, <<"shares", b>> >>)>> >>) :
            a \in Arrs(MaxObs), b \in Arrs(1)}
    \cup {MkDict(<< <<"units", MkDict(<< <<"shares", b>>, <<"USD", a>> >>)>> >>) :
            a \in Arrs(MaxObs), b \in Arrs(1)}

\* a namespace's facts: at most MaxFacts names of the pool, in the pool's
\* order or the reverse, each with the simple body
FactLists ==
    LET picks == {S \in SUBSET DOMAIN FactPool : Cardinality(S) <= MaxFacts}
        inOrder == {[i \in 1..Cardinality(S) |->
                        <<FactPool[Ascending(S)[i]], SimpleBody>>] : S \in picks}
    IN  inOrder \cup {Reverse(l) : l \in inOrder}

NsValues == {None} \cup {MkDict(l) : l \in FactLists}

MkDoc(all_facts) == MkDict(<< <<"facts", all_facts>> >>)

\* documents that vary the concept names: at most two namespaces
SelectionDocs ==
    {MkDoc(MkDict(<< <<a, v>> >>)) : a \in NsPool, v \in NsValues}
    \cup {MkDoc(MkDict(<< <<p[1], v>>, <<p[2], w>> >>)) :
            p \in {q \in NsPool \X NsPool : q[1] # q[2]},
            v \in NsValues, w \in NsValues}

\* documents that vary the units and observations of one concept
ObservationDocs ==
    UNION {
        { MkDoc(MkDict(<< <<NS_USGAAP, MkDict(<< <<F_Revenues, b>> >>)>> >>)),
          MkDoc(MkDict(<< <<NS_USGAAP, MkDict(<< <<F_Assets, SimpleBody>>,
                                                 <<F_Revenues, b>> >>)>> >>)),
          MkDoc(MkDict(<< <<NS_USGAAP, MkDict(<< <<F_Revenues, b>>,
                                                 <<F_NetIncomeLoss, SimpleBody>> >>)>> >>)),
          MkDoc(MkDict(<< <<NS_DEI, MkDict(<< <<F_OtherIncome, b>> >>)>> >>)) }
        : b \in RichBodies }

\* documents with no namespaces
EmptyDocs == {MkDict(<<>>), MkDoc(MkDict(<<>>)), MkDoc(None)}

\* documents whose substructure has the wrong type
MalformedBodies ==
    { None, MkList(<<>>), MkStr("x"),
      MkDict(<< <<"units", None>> >>),
      MkDict(<< <<"units", MkList(<<ObTest>>)>> >>),
      MkDict(<< <<"units", MkDict(<< <<"USD", None>> >>)>> >>),
      MkDict(<< <<"units", MkDict(<< <<"USD", MkInt(5)>> >>)>> >>),
      MkDict(<< <<"units", MkDict(<< <<"USD", MkList(<<None>>)>> >>)>> >>),
      MkDict(<< <<"units", MkDict(<< <<"USD", MkList(<<ObTest, MkStr("x")>>)>> >>)>> >>),
      MkDict(<< <<"units", MkDict(<< <<"USD", MkDict(<< <<"end", MkStr("2023-12-31")>> >>)>> >>)>> >>),
      MkDict(<< <<"units", MkDict(<< <<"USD", MkList(<<ObTest>>)>>, <<"shares", None>> >>)>> >>) }

MalformedDocs ==
    { MkDoc(MkList(<<MkInt(1)>>)), MkDoc(MkStr("x")),
      MkDoc(MkDict(<< <<NS_USGAAP, MkList(<<MkInt(1)>>)>> >>)),
      MkDoc(MkDict(<< <<NS_USGAAP, MkStr("x")>>, <<NS_DEI, MkInt(3)>> >>)) }
    \cup UNION {
        { MkDoc(MkDict(<< <<NS_USGAAP, MkDict(<< <<F_Revenues, b>> >>)>> >>)),
          MkDoc(MkDict(<< <<NS_USGAAP, MkDict(<< <<F_Revenues, SimpleBody>>,
                                                 <<F_Assets, b>> >>)>> >>)),
          MkDoc(MkDict(<< <<NS_USGAAP, MkDict(<< <<F_NetIncomeLoss, SimpleBody>>,
                                                 <<F_Revenues, b>> >>)>> >>)),
          MkDoc(MkDict(<< <<NS_DEI, MkDict(<< <<F_Cash, b>> >>)>> >>)) }
        : b \in MalformedBodies }

---------------------------------------------------------------------------
\* Values of the variables a specification does not use

IdleNorm ==
    /\ doc = MkDict(<<>>) /\ npc = "idle" /\ rows = <<>>
    /\ concepts = <<>> /\ calls = 0

IdleWorld ==
    /\ BUCKET = "" /\ directory = <<>> /\ subsOf = <<>> /\ factsOf = <<>>

IdleRun ==
    /\ RAW_PREFIX_DATE = 0 /\ runs = 0
    /\ pc = "idle" /\ error = "" /\ t2c = <<>> /\ chosen = <<>> /\ idx = 0
    /\ subs = None /\ cfacts = None /\ all_cf = <<>> /\ all_sub = <<>>
    /\ requests = <<>> /\ local = <<>> /\ uploaded = {}

IdleLoad ==
    /\ gcs = <<>> /\ raw_companyfacts = <<>> /\ raw_submissions = <<>>
    /\ lpc = "idle" /\ loads = 0

---------------------------------------------------------------------------
\* The normalizer called on one document, any number of times

InitNormOn(docs) ==
    /\ doc \in docs
    /\ npc = "ready" /\ rows = <<>> /\ concepts = <<>> /\ calls = 0
    /\ IdleWorld /\ IdleRun /\ IdleLoad

InitNorm == InitNormOn(SelectionDocs \cup ObservationDocs \cup EmptyDocs)

InitNormAny == InitNormOn(ObservationDocs \cup EmptyDocs \cup MalformedDocs)

\* rows = normalize_companyfacts(cik, ticker, doc); nothing is returned
\* when it raises
Normalize ==
    /\ npc # "idle"
    /\ calls < MaxCalls
    /\ LET r == normalize_companyfacts(CIK_AAPL, AAPL, doc) IN
        /\ npc' = IF r.raised THEN "raised" ELSE "returned"
        /\ rows' = IF r.raised THEN <<>> ELSE r.rows
        /\ concepts' = r.concepts
    /\ calls' = calls + 1
    /\ UNCHANGED <<doc, worldVars, procVars, runVars, gcs, loaderVars>>

NextNorm == Normalize

SpecNorm == InitNorm /\ [][NextNorm]_vars

SpecNormAny == InitNormAny /\ [][NextNorm]_vars

---------------------------------------------------------------------------
\* Properties of the normalizer, stated on the document itself

\* the namespaces of a document: the pairs under "facts", none when the
\* key is absent or holds no mapping
DocNamespaces(d) ==
    IF HasKey(d, "facts") /\ GetD(d, "facts", None).kind = "dict"
    THEN GetD(d, "facts", None).val
    ELSE <<>>

\* <<n, j>>: the j-th concept of the n-th namespace (a mapping)
ConceptPositions(d) ==
    UNION {{<<n, j>> : j \in DOMAIN DocNamespaces(d)[n][2].val} :
            n \in {m \in DOMAIN DocNamespaces(d) :
                    DocNamespaces(d)[m][2].kind = "dict"}}

ConceptAt(d, p) ==
    DocNamespaces(d)[p[1]][1] \o <<":">> \o DocNamespaces(d)[p[1]][2].val[p[2]][1]

BodyAt(d, p) == DocNamespaces(d)[p[1]][2].val[p[2]][2]

\* document iteration order
Earlier(p, q) ==
    \E i \in DOMAIN p :
        /\ p[i] < q[i]
        /\ \A j \in 1..(i - 1) : p[j] = q[j]

\* the first (at most) k members of S in document order
FirstOf(S, k) == {p \in S : Cardinality({q \in S : Earlier(q, p)}) < k}

AvailableSet(d) == {ConceptAt(d, p) : p \in ConceptPositions(d)}

PreferredSet == Range(concepts_preferred)

Mentions(c, terms) == \E t \in terms : contains(lower(c), t)

\* C1: when at least one preferred concept is available the effective
\* concept set is the preferred list exactly, the call raises nothing, no
\* row is emitted for a non-preferred concept and an unavailable preferred
\* concept yields no row.
C1_PreferredTier ==
    (npc \in {"returned", "raised"} /\ AvailableSet(doc) \cap PreferredSet # {})
    => /\ npc = "returned"
       /\ concepts = concepts_preferred
       /\ Len(concepts) = 6
       /\ \A k \in DOMAIN rows : rows[k].concept \in PreferredSet
       /\ \A c \in PreferredSet \ AvailableSet(doc) :
            \A k \in DOMAIN rows : rows[k].concept # c

\* a preferred concept and a non-preferred vocabulary match are both
\* available, some preferred concepts are missing, and rows came out
C1_Witness ==
    /\ npc = "returned"
    /\ AvailableSet(doc) \cap PreferredSet # {}
    /\ \E c \in AvailableSet(doc) \ PreferredSet : Mentions(c, {T_revenue, T_sales})
    /\ PreferredSet \ AvailableSet(doc) # {}
    /\ rows # <<>>

RevenuePositions(d) ==
    {p \in ConceptPositions(d) : Mentions(ConceptAt(d, p), {T_revenue, T_sales})}

IncomePositions(d) ==
    {p \in ConceptPositions(d) : Mentions(ConceptAt(d, p), {T_income, T_earnings})}

CandidatePositions(d) ==
    FirstOf(RevenuePositions(d), 2) \cup FirstOf(IncomePositions(d), 2)

\* the document has namespaces and none of the preferred concepts
FallbackCase == 
    /\ npc = "returned"
    /\ DocNamespaces(doc) # <<>>
    /\ AvailableSet(doc) \cap PreferredSet = {}

\* C2: with no preferred concept available the effective set is the first
\* two revenue/sales matches with the first two income/earnings matches
\* (at most 4 concepts), and the first 5 available concepts exactly when
\* there is no match at all.
C2_FallbackTier ==
    FallbackCase
    => LET cand == {ConceptAt(doc, p) : p \in CandidatePositions(doc)}
           any5 == {ConceptAt(doc, p) : p \in FirstOf(ConceptPositions(doc), 5)}
       IN  /\ Cardinality(cand) <= 4
           /\ cand # {} => Range(concepts) = cand
           /\ cand = {} => Range(concepts) = any5
           /\ (Range(concepts) \cap cand = {}) <=> (cand = {})

\* more than two matches of a vocabulary are available, so the cut to two
\* happens
C2_Witness ==
    /\ FallbackCase
    /\ Cardinality(RevenuePositions(doc)) > 2
    /\ IncomePositions(doc) # {}
    /\ Cardinality(Range(concepts)) = 3

\* <<n, j, u, k>>: the k-th observation of the u-th unit of a concept
ObservationPositions(d) ==
    UNION {UNION {{<<p[1], p[2], u, k>> :
                    k \in DOMAIN GetD(BodyAt(d, p), "units", MkDict(<<>>)).val[u][2].val} :
                  u \in DOMAIN GetD(BodyAt(d, p), "units", MkDict(<<>>)).val} :
           p \in ConceptPositions(d)}

UnitAt(d, q) == GetD(BodyAt(d, <<q[1], q[2]>>), "units", MkDict(<<>>)).val[q[3]]

ObAt(d, q) == UnitAt(d, q)[2].val[q[4]]

\* a period marker that is present and not empty
NonEmpty(v) == v \notin {None, MkStr(""), MkInt(0)}

\* the observations that must produce a row
Retained(d, cs) ==
    {q \in ObservationPositions(d) :
        /\ ConceptAt(d, <<q[1], q[2]>>) \in cs
        /\ (NonEmpty(Get(ObAt(d, q), "end")) \/ NonEmpty(Get(ObAt(d, q), "fy")))}

RowOf(d, q) ==
    LET ob == ObAt(d, q) IN
    [cik |-> CIK_AAPL, ticker |-> AAPL,
     concept |-> ConceptAt(d, <<q[1], q[2]>>), unit |-> UnitAt(d, q)[1],
     period_end_date |-> IF NonEmpty(Get(ob, "end")) THEN Get(ob, "end")
                         ELSE Get(ob, "fy"),
     val |-> Get(ob, "val"), accn |-> Get(ob, "accn"), fy |-> Get(ob, "fy"),
     fp |-> Get(ob, "fp"), form |-> Get(ob, "form"), filed |-> Get(ob, "filed")]

\* C3: the returned rows are, in document walk order, one row per
\* observation of a concept of the effective set that has a non-empty period
\* marker ('end' when present and non-empty, else 'fy'); so every row's
\* concept is in the effective set, every row has a non-empty
\* period_end_date, and an observation with neither marker gives no row.
C3_RowsExact ==
    npc = "returned"
    => LET keep == Retained(doc, Range(concepts)) IN
       /\ Len(rows) = Cardinality(keep)
       /\ \A q \in keep :
            rows[1 + Cardinality({r \in keep : Earlier(r, q)})] = RowOf(doc, q)
       /\ \A k \in DOMAIN rows :
            /\ rows[k].concept \in Range(concepts)
            /\ NonEmpty(rows[k].period_end_date)

\* a row dated by 'fy' after a row dated by 'end', while an observation
\* with neither marker was dropped
C3_Witness ==
    /\ npc = "returned"
    /\ Len(rows) >= 2
    /\ \E k \in DOMAIN rows : rows[k].period_end_date = MkInt(2021)
    /\ \E k \in DOMAIN rows : rows[k].period_end_date = MkStr("2023-12-31")
    /\ \E q \in ObservationPositions(doc) :
        /\ ConceptAt(doc, <<q[1], q[2]>>) \in Range(concepts)
        /\ ~NonEmpty(Get(ObAt(doc, q), "end"))
        /\ ~NonEmpty(Get(ObAt(doc, q), "fy"))

\* C4: the normalizer raises for no document.
C4_NeverRaises == npc # "raised"

\* the 'facts' key is absent or its value is empty
NoNamespaces(d) ==
    \/ ~HasKey(d, "facts")
    \/ GetD(d, "facts", None) \in {None, MkDict(<<>>)}

\* C5: a document with no namespaces gives an empty row list and no error,
\* on the first call and on every later one.
C5_EmptyDocument ==
    (npc \in {"returned", "raised"} /\ NoNamespaces(doc))
    => (npc = "returned" /\ rows = <<>>)

\* the second call on a document with no namespaces has returned
C5_Witness ==
    /\ NoNamespaces(doc)
    /\ calls = MaxCalls
    /\ calls >= 2
    /\ npc = "returned"

---------------------------------------------------------------------------
\* get_ticker_cik_map (fetch_sec.py 21-24)

ZFillWidth == 10

\* str(n) of a non-negative integer
RECURSIVE str(_)
str(n) == IF n < 10 THEN <<DG[n + 1]>> ELSE str(n \div 10) \o <<DG[(n % 10) + 1]>>

\* variant of str.zfill that pads to one character less
zfill_OneShort(s, width) ==
    IF Len(s) >= width - 1 THEN s ELSE [i \in 1..(width - 1 - Len(s)) |-> "0"] \o s

\* str.zfill(width) of an unsigned digit string
zfill(s, width) ==
    IF Len(s) >= width THEN s ELSE [i \in 1..(width - Len(s)) |-> "0"] \o s

\* the dict comprehension of line 24 over data.values(): a later entry with
\* the same key replaces the earlier one's value
RECURSIVE MapOf(_, _)
MapOf(entries, acc) ==
    IF entries = <<>> THEN acc
    ELSE LET v == Head(entries)
             key == upper(v.ticker)
             value == zfill(str(v.cik_str), ZFillWidth)
         IN  MapOf(Tail(entries),
                   [k \in DOMAIN acc \cup {key} |-> IF k = key THEN value ELSE acc[k]])

\* variant in which the first entry of a key is kept
RECURSIVE MapOf_FirstWins(_, _)
MapOf_FirstWins(entries, acc) ==
    IF entries = <<>> THEN acc
    ELSE LET v == Head(entries)
             key == upper(v.ticker)
             value == zfill(str(v.cik_str), ZFillWidth)
         IN  MapOf_FirstWins(Tail(entries),
                   [k \in DOMAIN acc \cup {key} |->
                        IF k \in DOMAIN acc THEN acc[k] ELSE value])

\* variant of get_ticker_cik_map that keeps a key's first entry
get_ticker_cik_map_FirstWins(data) == MapOf_FirstWins(data, <<>>)

get_ticker_cik_map(data) == MapOf(data, <<>>)

---------------------------------------------------------------------------
\* The submission flattening of main (fetch_sec.py 99-110)

\* d[key][i], i counted from 1: KeyError, TypeError, IndexError or the value
Subscript(d, key, i) ==
    IF ~HasKey(d, key) THEN [error |-> "KeyError", value |-> None]
    ELSE LET v == Get(d, key) IN
         IF v.kind # "list" THEN [error |-> "TypeError", value |-> None]
         ELSE IF i > Len(v.val) THEN [error |-> "IndexError", value |-> None]
         ELSE [error |-> "", value |-> v.val[i]]

\* the body of the loop for one index, the subscripts in the order of
\* lines 106-109
SubmissionRow(t, cik, company, rec, i) ==
    LET a == Subscript(rec, "accessionNumber", i)
        f == Subscript(rec, "form", i)
        d == Subscript(rec, "filingDate", i)
        r == Subscript(rec, "reportDate", i)
        err == IF a.error # "" THEN a.error
               ELSE IF f.error # "" THEN f.error
               ELSE IF d.error # "" THEN d.error
               ELSE r.error
    IN  [error |-> err,
         row |-> [cik |-> zfill(cik, ZFillWidth), ticker |-> t,
                  company_name |-> company, accession_no |-> a.value,
                  form |-> f.value, filed |-> d.value,
                  report_period |-> r.value]]

\* for i in range(n): all_sub.append({...})
RECURSIVE FlattenFrom(_, _, _, _, _, _, _)
FlattenFrom(t, cik, company, rec, n, i, acc) ==
    IF i > n THEN [error |-> "", rows |-> acc]
    ELSE LET r == SubmissionRow(t, cik, company, rec, i) IN
         IF r.error # "" THEN [error |-> r.error, rows |-> acc]
         ELSE FlattenFrom(t, cik, company, rec, n, i + 1, Append(acc, r.row))

\* the length of d[key], or n when there is no such list
LenOr(d, key, n) ==
    IF HasKey(d, key) /\ Get(d, key).kind = "list" THEN Len(Get(d, key).val) ELSE n

Min(a, b) == IF a < b THEN a ELSE b

\* variant that zips the four arrays, stopping at the shortest
FlattenSubmissions_Zip(t, cik, s, acc) ==
    LET company == GetD(s, "companyName", MkStr(""))
        filings == GetD(s, "filings", MkDict(<<>>))
    IN  IF ~IsDict(filings) THEN [error |-> "AttributeError", rows |-> acc]
        ELSE LET rec == GetD(filings, "recent", MkDict(<<>>)) IN
             IF ~IsDict(rec) THEN [error |-> "AttributeError", rows |-> acc]
             ELSE LET accs == GetD(rec, "accessionNumber", MkList(<<>>)) IN
                  IF accs.kind \notin {"list", "dict"}
                  THEN [error |-> "TypeError", rows |-> acc]
                  ELSE LET n == Len(accs.val) IN
                       FlattenFrom(t, cik, company, rec,
                                   Min(Min(LenOr(rec, "form", 0), LenOr(rec, "filingDate", 0)),
                                       Min(LenOr(rec, "reportDate", 0), n)),
                                   1, acc)

\* lines 99-110 for one company: all_sub afterwards, or the exception
FlattenSubmissions(t, cik, s, acc) ==
    LET company == GetD(s, "companyName", MkStr(""))
        filings == GetD(s, "filings", MkDict(<<>>))
    IN  IF ~IsDict(filings) THEN [error |-> "AttributeError", rows |-> acc]
        ELSE LET rec == GetD(filings, "recent", MkDict(<<>>)) IN
             IF ~IsDict(rec) THEN [error |-> "AttributeError", rows |-> acc]
             ELSE LET accs == GetD(rec, "accessionNumber", MkList(<<>>)) IN
                  IF accs.kind \notin {"list", "dict"}
                  THEN [error |-> "TypeError", rows |-> acc]
                  ELSE FlattenFrom(t, cik, company, rec, Len(accs.val), 1, acc)

---------------------------------------------------------------------------
\* What a run finds: the ticker directory and the per-company documents

msft == <<"m","s","f","t">>
GOOG == <<"G","O","O","G">>

\* TICKERS (line 11) with the default setting "AAPL,MSFT"
TICKERS == <<upper(AAPL), upper(MSFT)>>

CikPool == {320193, 789019, 5}

EntryPool == [ticker : {AAPL, MSFT, msft, GOOG}, cik_str : CikPool]

\* data.values() of the ticker directory: at most MaxEntries entries
Directories == UNION {[1..n -> EntryPool] : n \in 0..MaxEntries}

CikStrings == {zfill(str(n), ZFillWidth) : n \in CikPool}

CIK_MSFT == <<"0","0","0","0","7","8","9","0","1","9">>

AccessionNumbers == <<"0000320193-24-000001", "0000320193-24-000002",
                      "0000320193-24-000003", "0000320193-24-000004">>
Forms == <<"10-K", "10-Q", "8-K", "4">>
FilingDates == <<"2024-11-01", "2024-08-02", "2024-05-03", "2024-02-02">>
ReportDates == <<"2024-09-28", "2024-06-29", "2024-03-30", "2023-12-30">>

\* the first n strings of a pool as a JSON array
ArrayOf(pool, n) == MkList([i \in 1..n |-> MkStr(pool[i])])

\* the "recent" block with n accession numbers; one of the three other
\* arrays may be missing (len = -1) or of another length
RecentBlocks ==
    {MkDict(<< <<"accessionNumber", ArrayOf(AccessionNumbers, n)>> >>
            \o (IF odd = "form" /\ len = -1 THEN <<>>
                ELSE << <<"form", ArrayOf(Forms, IF odd = "form" THEN len ELSE n)>> >>)
            \o (IF odd = "filingDate" /\ len = -1 THEN <<>>
                ELSE << <<"filingDate",
                          ArrayOf(FilingDates, IF odd = "filingDate" THEN len ELSE n)>> >>)
            \o (IF odd = "reportDate" /\ len = -1 THEN <<>>
                ELSE << <<"reportDate",
                          ArrayOf(ReportDates, IF odd = "reportDate" THEN len ELSE n)>> >>)) :
        n \in 0..MaxFilings,
        odd \in {"form", "filingDate", "reportDate"},
        len \in -1..MaxFilings}

SubsPool ==
    {MkDict(<< <<"companyName", MkStr("Apple Inc.")>>,
               <<"filings", MkDict(<< <<"recent", r>> >>)>> >>) : r \in RecentBlocks}
    \cup { MkDict(<<>>),
           MkDict(<< <<"companyName", MkStr("Apple Inc.")>>,
                     <<"filings", MkDict(<<>>)>> >>),
           MkDict(<< <<"filings", None>> >>),
           MkDict(<< <<"filings", MkDict(<< <<"recent", None>> >>)>> >>),
           MkDict(<< <<"filings", MkDict(<< <<"recent",
                        MkDict(<< <<"accessionNumber", None>> >>)>> >>)>> >>) }

SubsSimple ==
    MkDict(<< <<"companyName", MkStr("Apple Inc.")>>,
              <<"filings", MkDict(<< <<"recent",
                    MkDict(<< <<"accessionNumber", ArrayOf(AccessionNumbers, 1)>>,
                              <<"form", ArrayOf(Forms, 1)>>,
                              <<"filingDate", ArrayOf(FilingDates, 1)>>,
                              <<"reportDate", ArrayOf(ReportDates, 1)>> >>)>> >>)>> >>)

\* the fact document of tests/test_ingestion.py
FactsTest == MkDoc(MkDict(<< <<NS_USGAAP, MkDict(<< <<F_Revenues, SimpleBody>> >>)>> >>))

FactsBroken == MkDoc(MkDict(<< <<NS_USGAAP, MkDict(<< <<F_Revenues, None>> >>)>> >>))

\* the fact documents served per identifier
FactsServed ==
    [c \in CikStrings |->
        IF c = CIK_AAPL THEN FactsTest
        ELSE IF c = CIK_MSFT THEN MkDict(<<>>)
        ELSE FactsBroken]

\* runs that vary the directory and the bucket setting
DirectoryWorlds ==
    /\ BUCKET \in {"", "sec-raw"}
    /\ directory \in Directories
    /\ subsOf = [c \in CikStrings |-> SubsSimple]
    /\ factsOf = FactsServed

\* runs that vary the two companies' submission documents
SubmissionWorlds ==
    /\ BUCKET = "sec-raw"
    /\ directory = << [ticker |-> AAPL, cik_str |-> 320193],
                      [ticker |-> MSFT, cik_str |-> 789019] >>
    /\ \E sa \in SubsPool, sm \in SubsPool :
         subsOf = [c \in CikStrings |-> IF c = CIK_AAPL THEN sa ELSE sm]
    /\ factsOf = FactsServed

---------------------------------------------------------------------------
\* main (fetch_sec.py 89-123)

\* the locals of main when the process starts
StartOfMain ==
    /\ pc = "assert" /\ error = "" /\ t2c = <<>> /\ chosen = <<>> /\ idx = 0
    /\ subs = None /\ cfacts = None /\ all_cf = <<>> /\ all_sub = <<>>
    /\ requests = <<>> /\ local = <<>> /\ uploaded = {}

Days == {20240101, 20240102}

FirstDay == 20240101

InitRun ==
    /\ (DirectoryWorlds \/ SubmissionWorlds)
    /\ RAW_PREFIX_DATE = FirstDay /\ runs = 1
    /\ StartOfMain
    /\ IdleNorm /\ IdleLoad

Running(at) == pc = at /\ error = ""

UrlTickers == <<"company_tickers">>
UrlSubmissions(cik) == <<"submissions", cik>>
UrlFacts(cik) == <<"companyfacts", cik>>

\* the pair main is working on
Current == chosen[idx + 1]

\* the URL main requests at its position
UrlAt ==
    CASE pc = "map" -> UrlTickers
      [] pc = "fetch_subs" -> UrlSubmissions(Current[2])
      [] pc = "fetch_facts" -> UrlFacts(Current[2])

\* where the for loop of line 95 goes next
LoopEntry(n, all) == IF n < Len(all) THEN "fetch_subs" ELSE "write_cf"

\* a store of named row lists with one name set: a file written anew
\* (open "w"), an object uploaded (last writer wins)
Put(store, name, content) ==
    [n \in DOMAIN store \cup {name} |-> IF n = name THEN content ELSE store[n]]

\* write_ndjson (76-80): one line per row, in order
write_ndjson(files, path, rs) == Put(files, path, rs)

\* upload_to_gcs (82-87): the object raw/<date>/<file> gets the file's lines
upload_to_gcs(bucket, lines, dest) == Put(bucket, dest, lines)

\* line 90, the assertion fails
AssertBucketFails ==
    /\ Running("assert")
    /\ BUCKET = ""
    /\ error' = "AssertionError"
    /\ UNCHANGED <<pc, t2c, chosen, idx, subs, cfacts, all_cf, all_sub,
                   requests, local, uploaded>>
    /\ UNCHANGED <<normVars, worldVars, procVars, gcs, loaderVars>>

\* line 90, the assertion holds
AssertBucket ==
    /\ Running("assert")
    /\ BUCKET # ""
    /\ pc' = "map"
    /\ UNCHANGED <<error, t2c, chosen, idx, subs, cfacts, all_cf, all_sub,
                   requests, local, uploaded>>
    /\ UNCHANGED <<normVars, worldVars, procVars, gcs, loaderVars>>

\* variant of a failed request that is swallowed and asked again
FetchFails_Retry ==
    /\ error = ""
    /\ pc \in {"map", "fetch_subs", "fetch_facts"}
    /\ Len(requests) < 3 + 2 * Len(TICKERS)
    /\ requests' = Append(requests, UrlAt)
    /\ UNCHANGED <<pc, error, t2c, chosen, idx, subs, cfacts, all_cf, all_sub,
                   local, uploaded>>
    /\ UNCHANGED <<normVars, worldVars, procVars, gcs, loaderVars>>

\* fetch_json (16-19): the request times out or raise_for_status raises;
\* nothing catches it
FetchFails ==
    /\ error = ""
    /\ pc \in {"map", "fetch_subs", "fetch_facts"}
    /\ requests' = Append(requests, UrlAt)
    /\ error' = "HTTPError"
    /\ UNCHANGED <<pc, t2c, chosen, idx, subs, cfacts, all_cf, all_sub,
                   local, uploaded>>
    /\ UNCHANGED <<normVars, worldVars, procVars, gcs, loaderVars>>

\* lines 91-94
ResolveTickers ==
    /\ Running("map")
    /\ requests' = Append(requests, UrlTickers)
    /\ LET m == get_ticker_cik_map(directory)
           picked == SelectSeq(TICKERS, LAMBDA t : t \in DOMAIN m)
           pairs == [i \in DOMAIN picked |-> <<picked[i], m[picked[i]]>>]
       IN  /\ t2c' = m
           /\ chosen' = pairs
           /\ pc' = LoopEntry(0, pairs)
    /\ UNCHANGED <<error, idx, subs, cfacts, all_cf, all_sub, local, uploaded>>
    /\ UNCHANGED <<normVars, worldVars, procVars, gcs, loaderVars>>

\* line 97
FetchSubmissions ==
    /\ Running("fetch_subs")
    /\ requests' = Append(requests, UrlSubmissions(Current[2]))
    /\ subs' = subsOf[Current[2]]
    /\ pc' = "fetch_facts"
    /\ UNCHANGED <<error, t2c, chosen, idx, cfacts, all_cf, all_sub, local, uploaded>>
    /\ UNCHANGED <<normVars, worldVars, procVars, gcs, loaderVars>>

\* line 98
FetchFacts ==
    /\ Running("fetch_facts")
    /\ requests' = Append(requests, UrlFacts(Current[2]))
    /\ cfacts' = factsOf[Current[2]]
    /\ pc' = "flatten"
    /\ UNCHANGED <<error, t2c, chosen, idx, subs, all_cf, all_sub, local, uploaded>>
    /\ UNCHANGED <<normVars, worldVars, procVars, gcs, loaderVars>>

\* lines 99-110: the rows are appended, or the exception ends the run with
\* the rows appended before it
Flatten ==
    /\ Running("flatten")
    /\ LET r == FlattenSubmissions(Current[1], Current[2], subs, all_sub) IN
        /\ all_sub' = r.rows
        /\ error' = r.error
        /\ pc' = IF r.error = "" THEN "normalize" ELSE pc
    /\ UNCHANGED <<t2c, chosen, idx, subs, cfacts, all_cf, requests, local, uploaded>>
    /\ UNCHANGED <<normVars, worldVars, procVars, gcs, loaderVars>>

\* lines 111-114 and the loop's next iteration
NormalizeCompany ==
    /\ Running("normalize")
    /\ LET r == normalize_companyfacts(zfill(Current[2], ZFillWidth), Current[1], cfacts) IN
        IF r.raised
        THEN /\ error' = "AttributeError"
             /\ UNCHANGED <<pc, idx, all_cf>>
        ELSE /\ all_cf' = all_cf \o r.rows
             /\ idx' = idx + 1
             /\ pc' = LoopEntry(idx + 1, chosen)
             /\ UNCHANGED error
    /\ UNCHANGED <<t2c, chosen, subs, cfacts, all_sub, requests, local, uploaded>>
    /\ UNCHANGED <<normVars, worldVars, procVars, gcs, loaderVars>>

\* line 119
WriteCompanyfacts ==
    /\ Running("write_cf")
    /\ local' = write_ndjson(local, "companyfacts.ndjson", all_cf)
    /\ pc' = "write_sub"
    /\ UNCHANGED <<error, t2c, chosen, idx, subs, cfacts, all_cf, all_sub,
                   requests, uploaded>>
    /\ UNCHANGED <<normVars, worldVars, procVars, gcs, loaderVars>>

\* line 120
WriteSubmissions ==
    /\ Running("write_sub")
    /\ local' = write_ndjson(local, "submissions.ndjson", all_sub)
    /\ pc' = "upload_cf"
    /\ UNCHANGED <<error, t2c, chosen, idx, subs, cfacts, all_cf, all_sub,
                   requests, uploaded>>
    /\ UNCHANGED <<normVars, worldVars, procVars, gcs, loaderVars>>

\* line 122
UploadCompanyfacts ==
    /\ Running("upload_cf")
    /\ gcs' = upload_to_gcs(gcs, local["companyfacts.ndjson"],
                            <<RAW_PREFIX_DATE, "companyfacts.ndjson">>)
    /\ uploaded' = uploaded \cup {"companyfacts.ndjson"}
    /\ pc' = "upload_sub"
    /\ UNCHANGED <<error, t2c, chosen, idx, subs, cfacts, all_cf, all_sub,
                   requests, local>>
    /\ UNCHANGED <<normVars, worldVars, procVars, loaderVars>>

\* line 123
UploadSubmissions ==
    /\ Running("upload_sub")
    /\ gcs' = upload_to_gcs(gcs, local["submissions.ndjson"],
                            <<RAW_PREFIX_DATE, "submissions.ndjson">>)
    /\ uploaded' = uploaded \cup {"submissions.ndjson"}
    /\ pc' = "done"
    /\ UNCHANGED <<error, t2c, chosen, idx, subs, cfacts, all_cf, all_sub,
                   requests, local>>
    /\ UNCHANGED <<normVars, worldVars, procVars, loaderVars>>

NextRun ==
    \/ AssertBucketFails
    \/ AssertBucket
    \/ FetchFails
    \/ ResolveTickers
    \/ FetchSubmissions
    \/ FetchFacts
    \/ Flatten
    \/ NormalizeCompany
    \/ WriteCompanyfacts
    \/ WriteSubmissions
    \/ UploadCompanyfacts
    \/ UploadSubmissions

SpecRun == InitRun /\ [][NextRun]_vars

---------------------------------------------------------------------------
\* Properties of the ticker resolution

DigitValue(ch) == (CHOOSE i \in DOMAIN DG : DG[i] = ch) - 1

RECURSIVE DecimalValue(_)
DecimalValue(s) ==
    IF s = <<>> THEN 0
    ELSE 10 * DecimalValue(SubSeq(s, 1, Len(s) - 1)) + DigitValue(s[Len(s)])

\* s is n written in decimal, left-padded with "0" to width 10
IsPadded(s, n) ==
    /\ Len(s) = 10
    /\ \A i \in DOMAIN s : s[i] \in Range(DG)
    /\ DecimalValue(s) = n

\* the directory entries of an upper-cased ticker
EntriesOf(k) == {i \in DOMAIN directory : upper(directory[i].ticker) = k}

Resolved == pc \notin {"idle", "assert", "map"}

\* C6: every ticker of the directory is a key, upper-cased, and its value is
\* the numeric id of an entry of that ticker as a string zero-padded to
\* width 10 (789019 gives "0000789019"); a configured ticker that is not in
\* the directory has no entry, raises nothing and is left out of the
\* companies the run processes.
C6_Resolution ==
    Resolved
    => /\ \A i \in DOMAIN directory : upper(directory[i].ticker) \in DOMAIN t2c
       /\ \A k \in DOMAIN t2c :
            /\ EntriesOf(k) # {}
            /\ \E i \in EntriesOf(k) : IsPadded(t2c[k], directory[i].cik_str)
            /\ \A i \in EntriesOf(k) :
                (EntriesOf(k) = {i} /\ directory[i].cik_str = 789019)
                => t2c[k] = <<"0","0","0","0","7","8","9","0","1","9">>
       /\ \A j \in DOMAIN TICKERS :
            EntriesOf(TICKERS[j]) = {}
            => /\ TICKERS[j] \notin DOMAIN t2c
               /\ \A c \in DOMAIN chosen : chosen[c][1] # TICKERS[j]
       /\ \A c \in DOMAIN chosen :
            /\ chosen[c][1] \in DOMAIN t2c
            /\ chosen[c][2] = t2c[chosen[c][1]]
       /\ Len(chosen) = Cardinality({j \in DOMAIN TICKERS : EntriesOf(TICKERS[j]) # {}})
       /\ (Len(requests) = 1 => error = "")

\* the run is done although a configured ticker was not in the directory,
\* and the id 789019 was resolved
C6_Witness ==
    /\ pc = "done"
    /\ \E j \in DOMAIN TICKERS : TICKERS[j] \notin DOMAIN t2c
    /\ \E k \in DOMAIN t2c : t2c[k] = CIK_MSFT
    /\ Len(chosen) = 1
    /\ uploaded = {"companyfacts.ndjson", "submissions.ndjson"}

FirstEntry(k) == CHOOSE i \in EntriesOf(k) : \A j \in EntriesOf(k) : i <= j

LastEntry(k) == CHOOSE i \in EntriesOf(k) : \A j \in EntriesOf(k) : j <= i

\* C7 as stated: a ticker with several entries resolves to the identifier
\* of the first of them.
C7_FirstMatchWins ==
    Resolved
    => \A k \in DOMAIN t2c : IsPadded(t2c[k], directory[FirstEntry(k)].cik_str)

\* C7 as the code has it: a ticker with several entries resolves to the
\* identifier of the last of them in table iteration order.
C7_LastMatchWins ==
    Resolved
    => \A k \in DOMAIN t2c : IsPadded(t2c[k], directory[LastEntry(k)].cik_str)

\* a ticker has two entries with different identifiers
C7_Witness ==
    /\ Resolved
    /\ \E k \in DOMAIN t2c :
        /\ Cardinality(EntriesOf(k)) >= 2
        /\ directory[FirstEntry(k)].cik_str # directory[LastEntry(k)].cik_str
        /\ directory[FirstEntry(k)].ticker # directory[LastEntry(k)].ticker

---------------------------------------------------------------------------
\* Properties of the submission flattening

\* the "recent" block of a submissions document, empty when a key is absent
RecentOf(s) == GetD(GetD(s, "filings", MkDict(<<>>)), "recent", MkDict(<<>>))

HasRecent(s) == HasKey(s, "filings") /\ HasKey(Get(s, "filings"), "recent")

AccessionCount(s) == LenOr(RecentOf(s), "accessionNumber", 0)

\* the blocks are mappings or absent and accessionNumber is a list or absent
Indexable(s) ==
    /\ GetD(s, "filings", MkDict(<<>>)).kind = "dict"
    /\ RecentOf(s).kind = "dict"
    /\ GetD(RecentOf(s), "accessionNumber", MkList(<<>>)).kind = "list"

\* one of form, filingDate, reportDate has fewer items than accessionNumber
\* (a missing array has none)
ShortArray(s) ==
    \E key \in {"form", "filingDate", "reportDate"} :
        LenOr(RecentOf(s), key, 0) < AccessionCount(s)

ExpectedSubmissionRows(t, cik, s) ==
    [i \in 1..AccessionCount(s) |->
        [cik |-> cik, ticker |-> t,
         company_name |-> GetD(s, "companyName", MkStr("")),
         accession_no |-> Get(RecentOf(s), "accessionNumber").val[i],
         form |-> Get(RecentOf(s), "form").val[i],
         filed |-> Get(RecentOf(s), "filingDate").val[i],
         report_period |-> Get(RecentOf(s), "reportDate").val[i]]]

RECURSIVE ExpectedAllSub(_)
ExpectedAllSub(k) ==
    IF k = 0 THEN <<>>
    ELSE ExpectedAllSub(k - 1)
         \o ExpectedSubmissionRows(chosen[k][1], chosen[k][2], subsOf[chosen[k][2]])

\* the companies whose submissions were flattened without an exception
Flattened == idx + (IF pc = "normalize" THEN 1 ELSE 0)

FlattenFailed == pc = "flatten" /\ error # ""

\* C8 as stated: every flattened company gave len(accessionNumber) rows, and
\* a company whose arrays are short or whose recent-filings block is absent
\* was not flattened: the run failed on it.
C8_AbsentBlockFails ==
    (pc # "idle" /\ ~FlattenFailed)
    => /\ \A k \in 1..Flattened :
            /\ ~ShortArray(subsOf[chosen[k][2]])
            /\ HasRecent(subsOf[chosen[k][2]])
       /\ all_sub = ExpectedAllSub(Flattened)

\* C8 as the code has it: every company flattened without an exception
\* gave exactly len(accessionNumber) rows, row i pairing the company's
\* id/ticker/name with the i-th accession number, form, filing date and
\* report date; a form, filingDate or reportDate array that is missing or
\* shorter than accessionNumber, or a filings/recent block that is no
\* mapping, ends the run with an exception and nothing is written or
\* uploaded; an absent "filings" or "recent" key gives zero rows and the run
\* goes on.
C8_Flattening ==
    /\ (pc # "idle" /\ ~FlattenFailed)
       => /\ \A k \in 1..Flattened :
                /\ Indexable(subsOf[chosen[k][2]])
                /\ ~ShortArray(subsOf[chosen[k][2]])
          /\ all_sub = ExpectedAllSub(Flattened)
    /\ FlattenFailed
       => /\ (~Indexable(subs) \/ ShortArray(subs))
          /\ (Indexable(subs) => error \in {"IndexError", "KeyError"})
          /\ (~Indexable(subs) => error \in {"AttributeError", "TypeError"})
          /\ DOMAIN local = {} /\ uploaded = {}
    /\ (pc = "normalize" /\ ~HasRecent(subs))
       => all_sub = ExpectedAllSub(idx)

\* a company with a short array failed the run after another company's rows
\* had been appended
C8_Witness ==
    /\ FlattenFailed
    /\ error = "IndexError"
    /\ idx = 1
    /\ Len(all_sub) >= 2
    /\ ShortArray(subs)

\* a company without a recent-filings block was flattened to zero rows and
\* the run went on to its end
C8_AbsentBlockSkipped ==
    /\ pc = "done"
    /\ \E k \in DOMAIN chosen : ~HasRecent(subsOf[chosen[k][2]])

---------------------------------------------------------------------------
\* Properties of a run

\* the requests of a run that fetches every chosen company's two documents
ExpectedRequests ==
    [i \in 1..(1 + 2 * Len(chosen)) |->
        IF i = 1 THEN UrlTickers
        ELSE IF i % 2 = 0 THEN UrlSubmissions(chosen[i \div 2][2])
        ELSE UrlFacts(chosen[i \div 2][2])]

IsPrefix(a, b) == Len(a) <= Len(b) /\ a = SubSeq(b, 1, Len(a))

RunState ==
    /\ BUCKET = "" => (requests = <<>> /\ DOMAIN local = {} /\ uploaded = {})
    /\ error # "" => (DOMAIN local = {} /\ uploaded = {})
    /\ IsPrefix(requests, ExpectedRequests)
    /\ (DOMAIN local # {} \/ uploaded # {})
       => /\ error = ""
          /\ idx = Len(chosen)
          /\ requests = ExpectedRequests
          /\ all_sub = ExpectedAllSub(Len(chosen))
          /\ uploaded \subseteq DOMAIN local

\* C9: a failed request ends the run at once: no request follows it (no
\* document is requested twice), and no file is written or uploaded; files
\* are written and uploaded only after every resolved ticker's two documents
\* were fetched and flattened; without the bucket setting no request is made.
C9_FailFast ==
    /\ [](pc # "idle" => RunState)
    /\ [][error # "" => UNCHANGED <<requests, local, uploaded, pc, error>>]_vars

\* the second company's facts request failed after the first company was
\* processed
C9_Witness ==
    /\ error = "HTTPError"
    /\ pc = "fetch_facts"
    /\ idx = 1
    /\ Len(requests) = 5
    /\ all_sub # <<>>

---------------------------------------------------------------------------
\* load_raw.py, and the ingestion process started again

\* the objects gs://BUCKET/raw/*/<file> matches
Matching(bucket, file) == {o \in DOMAIN bucket : o[2] = file}

\* the lines of the matching objects, by date
RECURSIVE LinesOf(_, _, _)
LinesOf(bucket, file, dates) ==
    IF dates = <<>> THEN <<>>
    ELSE bucket[<<Head(dates), file>>] \o LinesOf(bucket, file, Tail(dates))

\* load_ndjson (11-24): a load job with WRITE_APPEND over the wildcard URI
load_ndjson(table, bucket, file) ==
    table \o LinesOf(bucket, file,
                     Ascending({o[1] : o \in Matching(bucket, file)}))

\* the operator starts fetch_sec.py again, the same day or a later one
NewRun ==
    /\ pc = "done" \/ (pc # "idle" /\ error # "")
    /\ runs < MaxRuns
    /\ runs' = runs + 1
    /\ RAW_PREFIX_DATE' \in {d \in Days : d >= RAW_PREFIX_DATE}
    /\ pc' = "assert" /\ error' = "" /\ t2c' = <<>> /\ chosen' = <<>> /\ idx' = 0
    /\ subs' = None /\ cfacts' = None /\ all_cf' = <<>> /\ all_sub' = <<>>
    /\ requests' = <<>> /\ local' = <<>> /\ uploaded' = {}
    /\ UNCHANGED <<normVars, worldVars, gcs, loaderVars>>

\* load_raw.py is started; line 27, the assertion fails
LoaderAssertFails ==
    /\ lpc \in {"ready", "done", "failed"}
    /\ loads < MaxLoads
    /\ BUCKET = ""
    /\ loads' = loads + 1
    /\ lpc' = "failed"
    /\ UNCHANGED <<raw_companyfacts, raw_submissions>>
    /\ UNCHANGED <<normVars, worldVars, procVars, runVars, gcs>>

\* load_raw.py is started; line 27, the assertion holds
LoaderAssert ==
    /\ lpc \in {"ready", "done", "failed"}
    /\ loads < MaxLoads
    /\ BUCKET # ""
    /\ loads' = loads + 1
    /\ lpc' = "load_cf"
    /\ UNCHANGED <<raw_companyfacts, raw_submissions>>
    /\ UNCHANGED <<normVars, worldVars, procVars, runVars, gcs>>

\* job.result() raises (line 23): no object matches the URI, or the job fails
LoadJobFails ==
    /\ lpc \in {"load_cf", "load_sub"}
    /\ lpc' = "failed"
    /\ UNCHANGED <<raw_companyfacts, raw_submissions, loads>>
    /\ UNCHANGED <<normVars, worldVars, procVars, runVars, gcs>>

\* line 28
LoadCompanyfacts ==
    /\ lpc = "load_cf"
    /\ Matching(gcs, "companyfacts.ndjson") # {}
    /\ raw_companyfacts' = load_ndjson(raw_companyfacts, gcs, "companyfacts.ndjson")
    /\ lpc' = "load_sub"
    /\ UNCHANGED <<raw_submissions, loads>>
    /\ UNCHANGED <<normVars, worldVars, procVars, runVars, gcs>>

\* line 29
LoadSubmissions ==
    /\ lpc = "load_sub"
    /\ Matching(gcs, "submissions.ndjson") # {}
    /\ raw_submissions' = load_ndjson(raw_submissions, gcs, "submissions.ndjson")
    /\ lpc' = "done"
    /\ UNCHANGED <<raw_companyfacts, loads>>
    /\ UNCHANGED <<normVars, worldVars, procVars, runVars, gcs>>

InitLoad ==
    /\ BUCKET \in {"", "sec-raw"}
    /\ directory \in { << [ticker |-> AAPL, cik_str |-> 320193] >>,
                       << [ticker |-> AAPL, cik_str |-> 320193],
                          [ticker |-> MSFT, cik_str |-> 789019] >> }
    /\ subsOf = [c \in CikStrings |-> SubsSimple]
    /\ factsOf = FactsServed
    /\ RAW_PREFIX_DATE = FirstDay /\ runs = 1
    /\ StartOfMain
    /\ IdleNorm
    /\ gcs = <<>> /\ raw_companyfacts = <<>> /\ raw_submissions = <<>>
    /\ lpc = "ready" /\ loads = 0

NextLoad ==
    \/ NextRun
    \/ NewRun
    \/ LoaderAssertFails
    \/ LoaderAssert
    \/ LoadJobFails
    \/ LoadCompanyfacts
    \/ LoadSubmissions

SpecLoad == InitLoad /\ [][NextLoad]_vars

\* how many times x occurs in a sequence
Count(x, seq) == Cardinality({i \in DOMAIN seq : seq[i] = x})

\* how many times x occurs in the objects staged under a file name
StagedCount(x, file) ==
    LET dates == Ascending({o[1] : o \in Matching(gcs, file)})
    IN  Count(x, LinesOf(gcs, file, dates))

\* C10: whatever ingestion runs and loader runs there were, the raw tables
\* hold every staged batch's rows as often as one load of the batch puts
\* them there: a loader run that finds them loaded adds nothing.
C10_LoadedOnce ==
    /\ \A i \in DOMAIN raw_companyfacts :
        Count(raw_companyfacts[i], raw_companyfacts)
            <= StagedCount(raw_companyfacts[i], "companyfacts.ndjson")
    /\ \A i \in DOMAIN raw_submissions :
        Count(raw_submissions[i], raw_submissions)
            <= StagedCount(raw_submissions[i], "submissions.ndjson")

====
